---- MODULE Spec2Model ----
(***************************************************************************)
(* NoteSmith (src/main.ts, second RefinerPlugin, lines 250-546): the       *)
(* refine operation as a state machine.  Text is a sequence of atomic      *)
(* chunks (strings); a JavaScript value is a tagged record.  Every await   *)
(* of refineNote / callOpenAI / callMistral is a program position (pc);    *)
(* the synchronous code between two awaits is one action.                  *)
(***************************************************************************)
EXTENDS Integers, Sequences, FiniteSets, TLC

\* Number of refineNote invocations a behaviour may start.
MaxInv == 2

\* Number of edits a behaviour may make in the settings tab.
MaxEdits == 2

Invocations == 1..MaxInv

VARIABLES
    data,        \* the plugin's stored record (what loadData() returns)
    settings,    \* this.settings
    saving,      \* the saveData calls that have not completed, in call order
    edits,       \* number of edits made in the settings tab
    doc,         \* body of the note in the vault
    cmdReturn,   \* last value a checkCallback returned to the host
    lastWriter,  \* invocation whose vault.modify completed last (0: none)
    pc,          \* per invocation: the await it is suspended at
    docAtStart,  \* per invocation: doc when refineNote was called
    cfgAtStart,  \* per invocation: this.settings when refineNote was called
    spinner,     \* per invocation: its LoadingModal, opens and closes
    requests,    \* per invocation: the fetch calls it made
    res,         \* per invocation: the Response as far as it has arrived
    refined,     \* per invocation: what callOpenAI / callMistral returned
    modifies,    \* per invocation: the bodies it passed to vault.modify
    notices,     \* per invocation: the Notices it created
    logs,        \* per invocation: its console.error entries
    promise      \* per invocation: state of the promise refineNote returned

vars == <<data, settings, saving, edits, doc, cmdReturn, lastWriter, pc,
          docAtStart, cfgAtStart, spinner, requests, res, refined, modifies, notices,
          logs, promise>>

envVars == <<data, settings, saving, edits>>
invVars == <<doc, lastWriter, pc, docAtStart, cfgAtStart, spinner, requests, res,
             refined, modifies, notices, logs, promise>>

-----------------------------------------------------------------------------
(* JavaScript values *)

JNull == [t |-> "null"]
JUndefined == [t |-> "undefined"]
JStr(s) == [t |-> "str", s |-> s]
JArr(a) == [t |-> "arr", a |-> a]
JObj(f) == [t |-> "obj", f |-> f]
NoFields == <<>>

IsNullish(v) == v.t \in {"null", "undefined"}

\* Mutant of Truthy: only null and undefined are falsy, "" passes.
Truthy_emptyStringPasses(v) == v.t \notin {"null", "undefined"}

\* ToBoolean: null, undefined and "" are falsy; objects, arrays and
\* non-empty strings are truthy.
Truthy(v) ==
    CASE v.t = "null" -> FALSE
      [] v.t = "undefined" -> FALSE
      [] v.t = "str" -> v.s # <<>>
      [] OTHER -> TRUE

\* v.k for a v that is neither null nor undefined.
Member(v, k) ==
    IF v.t = "obj" /\ k \in DOMAIN v.f THEN v.f[k] ELSE JUndefined

\* v?.k
OptMember(v, k) == IF IsNullish(v) THEN JUndefined ELSE Member(v, k)

\* v?.[n]
OptIndex(v, n) ==
    IF IsNullish(v) THEN JUndefined
    ELSE IF v.t = "arr" /\ n < Len(v.a) THEN v.a[n + 1]
    ELSE JUndefined

\* a || b
OrElse(a, b) == IF Truthy(a) THEN a ELSE b

\* Number to decimal string, as a template literal prints it.
Digit(d) == CASE d = 0 -> "0" [] d = 1 -> "1" [] d = 2 -> "2" [] d = 3 -> "3"
              [] d = 4 -> "4" [] d = 5 -> "5" [] d = 6 -> "6" [] d = 7 -> "7"
              [] d = 8 -> "8" [] d = 9 -> "9"

RECURSIVE DecStr(_)
DecStr(n) == IF n < 10 THEN Digit(n) ELSE DecStr(n \div 10) \o Digit(n % 10)

\* An Error object.
Err(name, message) == [name |-> name, message |-> message]

-----------------------------------------------------------------------------
(* Response bodies and Response.json() *)

BodyX == <<"{\"choices\":[{\"message\":{\"content\":\"X\"}}]}">>
BodyY == <<"{\"response\":\"Y\"}">>
BodyBoth == <<"{\"choices\":[{\"message\":{\"content\":\"Z\"}}],\"response\":\"W\"}">>
BodyEmptyObject == <<"{}">>
BodyNoChoice == <<"{\"choices\":[]}">>
BodyNoMessage == <<"{\"choices\":[{}]}">>
BodyNoContent == <<"{\"choices\":[{\"message\":{}}]}">>
BodyEmptyContent == <<"{\"choices\":[{\"message\":{\"content\":\"\"}}]}">>
BodyJsonNull == <<"null">>
BodyHtml == <<"<html>", "502", "</html>">>
BodyServerError == <<"server", " ", "error">>

TextX == <<"X">>
TextY == <<"Y">>
TextZ == <<"Z", "\n", "z">>
TextW == <<"W", "\n", "w">>

JsonBodies == {BodyX, BodyY, BodyBoth, BodyEmptyObject, BodyNoChoice, BodyNoMessage,
               BodyNoContent, BodyEmptyContent, BodyJsonNull}

\* What JSON.parse makes of a body; bodies outside JsonBodies are no JSON.
ParseJson(b) ==
    CASE b = BodyX ->
           JObj([choices |-> JArr(<<JObj([message |->
                    JObj([content |-> JStr(TextX)])])>>)])
      [] b = BodyY -> JObj([response |-> JStr(TextY)])
      [] b = BodyBoth ->
           JObj([choices |-> JArr(<<JObj([message |->
                    JObj([content |-> JStr(TextZ)])])>>),
                 response |-> JStr(TextW)])
      [] b = BodyEmptyObject -> JObj(NoFields)
      [] b = BodyNoChoice -> JObj([choices |-> JArr(<<>>)])
      [] b = BodyNoMessage -> JObj([choices |-> JArr(<<JObj(NoFields)>>)])
      [] b = BodyNoContent ->
           JObj([choices |-> JArr(<<JObj([message |-> JObj(NoFields)])>>)])
      [] b = BodyEmptyContent ->
           JObj([choices |-> JArr(<<JObj([message |->
                    JObj([content |-> JStr(<<>>)])])>>)])
      [] b = BodyJsonNull -> JNull

OkBodies == JsonBodies \cup {BodyHtml}
ErrorBodies == {BodyServerError}

HttpStatuses == {[status |-> 200, statusText |-> "OK"],
                 [status |-> 401, statusText |-> "Unauthorized"],
                 [status |-> 500, statusText |-> "Internal Server Error"]}

\* Response.ok
ResOk(r) == r.status >= 200 /\ r.status <= 299

\* A Response as far as the client has seen it: how far it arrived, its
\* status line, and what res.text() returned (the const text of lines 384, 416).
NoResponse == [state |-> "none", status |-> 0, statusText |-> "", text |-> <<>>]

-----------------------------------------------------------------------------
(* Settings: DEFAULT_SETTINGS and loadSettings *)

DEFAULT_SETTINGS ==
    [apiKey |-> <<>>,
     model |-> <<"gpt-4o">>,
     apiUrl |-> <<"https://api.openai.com/v1/chat/completions">>,
     tags |-> <<>>,
     additionalInstructions |-> <<>>,
     useOllama |-> FALSE]

\* Object.assign({}, a, b); b may be null (NoData), which assigns nothing.
NoData == <<>>
ObjectAssign(a, b) ==
    [k \in DOMAIN a \cup DOMAIN b |-> IF k \in DOMAIN b THEN b[k] ELSE a[k]]

\* Mutant of loadSettings: the defaults are assigned over the stored record.
loadSettings_defaultsLast(stored) == ObjectAssign(stored, DEFAULT_SETTINGS)

\* Object.assign({}, DEFAULT_SETTINGS, await this.loadData())   (line 429)
loadSettings(stored) == ObjectAssign(DEFAULT_SETTINGS, stored)

\* Stored records the plugin may find at startup.
StoredRecords ==
    {NoData,
     [useOllama |-> TRUE, model |-> <<"mistral">>,
      apiUrl |-> <<"http://localhost:3000/api/v1/generate">>]}

-----------------------------------------------------------------------------
(* Prompt assembly (refineNote, lines 318-340) *)

Whitespace == {" ", "\n", "\t"}

\* String.prototype.trim on a chunk sequence: whitespace chunks are dropped
\* from both ends.
RECURSIVE TrimStart(_)
TrimStart(s) ==
    IF s # <<>> /\ Head(s) \in Whitespace THEN TrimStart(Tail(s)) ELSE s

RECURSIVE TrimEnd(_)
TrimEnd(s) ==
    IF s # <<>> /\ s[Len(s)] \in Whitespace
    THEN TrimEnd(SubSeq(s, 1, Len(s) - 1)) ELSE s

Trim(s) == TrimEnd(TrimStart(s))

TagLead == "If any content fits the following tags, add them where appropriate (e.g. headers, checklists). Doesn't just have to be for headers, can be at any point in the document: "

tagInstruction(cfg) ==
    IF Trim(cfg.tags) # <<>> THEN <<TagLead>> \o cfg.tags ELSE <<>>

\* The source's backquotes are written ' here (the lexer accepts no backquote
\* inside a string).
baseInstructions ==
    <<"You are a helpful assistant that formats and improves Markdown notes for use in Obsidian.\n",
      "\n",
      "Clean up the following note by:\n",
      "- Fixing grammar, punctuation, and inconsistent structure\n",
      "- Making the content easier to read and logically organized\n",
      "- Applying proper Obsidian Markdown formatting:\n",
      "  - Use '#', '##', '###', '####' for headings\n",
      "  - Format lists using '-' or '1.' consistently\n",
      "  - Convert any tasks into '[ ]' or '[x]' checkboxes\n",
      "  - Preserve and reformat code blocks, blockquotes, and inline formatting\n",
      "  - Don't wrap the whole response in a code block\n",
      "  - Avoid '---' at the top (it breaks Obsidian rendering)\n",
      "\n",
      "Keep all important content, but reword or reformat for clarity where helpful.">>

AdditionalMarker == "\n\nAdditional Instructions:\n"
NoteMarker == "\n\n### Note:\n"

\* Mutant of BuildPrompt: the body is trimmed before it is appended.
BuildPrompt_trimmedBody(original, cfg) ==
    baseInstructions \o <<"\n">>
    \o (IF tagInstruction(cfg) # <<>>
        THEN <<"\n- ">> \o tagInstruction(cfg) ELSE <<>>)
    \o <<"\n">>
    \o (IF cfg.additionalInstructions # <<>>
        THEN <<AdditionalMarker>> \o cfg.additionalInstructions ELSE <<>>)
    \o <<"\n">>
    \o <<NoteMarker>> \o Trim(original)

\* Mutant of BuildPrompt: the additional instructions come before the tag
\* clause.
BuildPrompt_tagsAfterExtra(original, cfg) ==
    baseInstructions \o <<"\n">>
    \o (IF cfg.additionalInstructions # <<>>
        THEN <<AdditionalMarker>> \o cfg.additionalInstructions ELSE <<>>)
    \o <<"\n">>
    \o (IF tagInstruction(cfg) # <<>>
        THEN <<"\n- ">> \o tagInstruction(cfg) ELSE <<>>)
    \o <<"\n">>
    \o <<NoteMarker>> \o original

\* The template literal of lines 337-340.
BuildPrompt(original, cfg) ==
    baseInstructions \o <<"\n">>
    \o (IF tagInstruction(cfg) # <<>>
        THEN <<"\n- ">> \o tagInstruction(cfg) ELSE <<>>)
    \o <<"\n">>
    \o (IF cfg.additionalInstructions # <<>>
        THEN <<AdditionalMarker>> \o cfg.additionalInstructions ELSE <<>>)
    \o <<"\n">>
    \o <<NoteMarker>> \o original

-----------------------------------------------------------------------------
(* Completion client: callOpenAI and callMistral *)

Header(k, v) == k :> v

\* The fetch call of callOpenAI (lines 402-413).
OpenAIRequest(content, cfg) ==
    [url |-> cfg.apiUrl,
     method |-> "POST",
     headers |-> Header("Content-Type", <<"application/json">>)
                 @@ Header("Authorization", <<"Bearer ">> \o cfg.apiKey),
     body |-> [model |-> cfg.model,
               messages |-> <<[role |-> "user", content |-> content]>>,
               temperature |-> "0.3"]]

\* Mutant of MistralRequest: the Authorization header is sent here too.
MistralRequest_withCredential(prompt, cfg) ==
    [url |-> cfg.apiUrl,
     method |-> "POST",
     headers |-> Header("Content-Type", <<"application/json">>)
                 @@ Header("Authorization", <<"Bearer ">> \o cfg.apiKey),
     body |-> [model |-> cfg.model,
               messages |-> <<[role |-> "user", content |-> prompt]>>,
               max_tokens |-> 512,
               temperature |-> "0.3"]]

\* The fetch call of callMistral (lines 365-381).
MistralRequest(prompt, cfg) ==
    [url |-> cfg.apiUrl,
     method |-> "POST",
     headers |-> Header("Content-Type", <<"application/json">>),
     body |-> [model |-> cfg.model,
               messages |-> <<[role |-> "user", content |-> prompt]>>,
               max_tokens |-> 512,
               temperature |-> "0.3"]]

\* The outcome of evaluating an expression: a value, or a thrown error.
Value(v) == [threw |-> FALSE, value |-> v, error |-> Err("", <<>>)]
Throw(e) == [threw |-> TRUE, value |-> JUndefined, error |-> e]

NullAccess(k) ==
    Err("TypeError", <<"Cannot read properties of null, reading ", k>>)

\* Mutant of OpenAIExtract: the "|| null" is missing.
OpenAIExtract_noFallback(json) ==
    IF IsNullish(json) THEN Throw(NullAccess("choices"))
    ELSE Value(OptMember(OptMember(OptIndex(Member(json, "choices"), 0),
                                   "message"), "content"))

\* json.choices?.[0]?.message?.content || null   (line 421)
OpenAIExtract(json) ==
    IF IsNullish(json) THEN Throw(NullAccess("choices"))
    ELSE Value(OrElse(
           OptMember(OptMember(OptIndex(Member(json, "choices"), 0),
                               "message"), "content"),
           JNull))

\* json.response || null   (line 390)
MistralExtract(json) ==
    IF IsNullish(json) THEN Throw(NullAccess("response"))
    ELSE Value(OrElse(Member(json, "response"), JNull))

\* Mutant of Extract: whichever of the two fields is there is returned.
Extract_anyShape(useOllama, json) ==
    IF IsNullish(json) THEN Throw(NullAccess("choices"))
    ELSE Value(OrElse(OrElse(
           OptMember(OptMember(OptIndex(Member(json, "choices"), 0),
                               "message"), "content"),
           Member(json, "response")), JNull))

\* this.settings.useOllama selects the client, hence the extraction
\* (lines 343-345).
Extract(useOllama, json) ==
    IF useOllama THEN MistralExtract(json) ELSE OpenAIExtract(json)

\* Mutant of ApiError: the response body is left out of the message.
ApiError_statusOnly(r, text) ==
    Err("Error", <<"API Error: ", DecStr(r.status), " ", r.statusText>>)

\* new Error("API Error: " + res.status + " " + res.statusText + " - " + text)
ApiError(r, text) ==
    Err("Error",
        <<"API Error: ", DecStr(r.status), " ", r.statusText, " - ">> \o text)

ClientLabel(useOllama) ==
    IF useOllama THEN "Mistral API Error:" ELSE "Refiner Plugin Error:"

\* Mutant of ClientCatch: no try / catch, the error reaches the caller.
ClientCatch_rethrow(useOllama, outcome) == [ret |-> outcome, log |-> <<>>]

\* The try / catch of callOpenAI and callMistral around an outcome of their
\* body: a thrown error is logged and null is returned in its place.
ClientCatch(useOllama, outcome) ==
    IF outcome.threw
    THEN [ret |-> Value(JNull),
          log |-> <<[label |-> ClientLabel(useOllama), err |-> outcome.error]>>]
    ELSE [ret |-> outcome, log |-> <<>>]

-----------------------------------------------------------------------------
(* The vault's note and the initial state *)

NoteBody == <<"buy milk", "\n", "call mom">>
FileName == "note.md"

Unassigned == Value([t |-> "unassigned"])

Init ==
    /\ data \in StoredRecords
    /\ settings = loadSettings(data)
    /\ saving = <<>>
    /\ edits = 0
    /\ doc = NoteBody
    /\ cmdReturn = "none"
    /\ lastWriter = 0
    /\ pc = [i \in Invocations |-> "idle"]
    /\ docAtStart = [i \in Invocations |-> <<>>]
    /\ cfgAtStart = [i \in Invocations |-> <<>>]
    /\ spinner = [i \in Invocations |-> [opens |-> 0, closes |-> 0]]
    /\ requests = [i \in Invocations |-> <<>>]
    /\ res = [i \in Invocations |-> NoResponse]
    /\ refined = [i \in Invocations |-> Unassigned]
    /\ modifies = [i \in Invocations |-> <<>>]
    /\ notices = [i \in Invocations |-> <<>>]
    /\ logs = [i \in Invocations |-> <<>>]
    /\ promise = [i \in Invocations |-> "none"]

-----------------------------------------------------------------------------
(* refineNote (lines 311-359), one action per resumption *)

\* Mutant of Finally: the spinner is not closed.
Finally_leak(i, settled) ==
    /\ promise' = [promise EXCEPT ![i] = settled]
    /\ pc' = [pc EXCEPT ![i] = "done"]
    /\ UNCHANGED spinner

\* finally { spinner.close() }, after which the promise of refineNote settles.
Finally(i, settled) ==
    /\ spinner' = [spinner EXCEPT ![i].closes = @ + 1]
    /\ promise' = [promise EXCEPT ![i] = settled]
    /\ pc' = [pc EXCEPT ![i] = "done"]

\* Mutant of Catch: the error is logged, no notice is shown.
Catch_silent(i, pre, err) ==
    /\ logs' = [logs EXCEPT ![i] =
                  @ \o pre \o <<[label |-> "Refiner Error:", err |-> err]>>]
    /\ UNCHANGED notices
    /\ Finally(i, "fulfilled")

\* Mutant of Catch: no catch block, the error rejects the promise.
Catch_rethrow(i, pre, err) ==
    /\ logs' = [logs EXCEPT ![i] = @ \o pre]
    /\ UNCHANGED notices
    /\ Finally(i, "rejected")

\* catch (err) { console.error(...); new Notice(...) } and the finally block.
\* pre: what the completion client logged before the error reached here.
Catch(i, pre, err) ==
    /\ logs' = [logs EXCEPT ![i] =
                  @ \o pre \o <<[label |-> "Refiner Error:", err |-> err]>>]
    /\ notices' = [notices EXCEPT ![i] =
                  Append(@, <<"An error occurred while refining the note.">>)]
    /\ Finally(i, "fulfilled")

\* Lines 312-316: open the spinner and call vault.read.  Invocations take
\* the identifiers 1, 2, ... in the order they start.
refineNote(i) ==
    /\ pc[i] = "idle"
    /\ \A j \in 1..(i - 1) : pc[j] # "idle"
    /\ spinner' = [spinner EXCEPT ![i].opens = @ + 1]
    /\ docAtStart' = [docAtStart EXCEPT ![i] = doc]
    /\ cfgAtStart' = [cfgAtStart EXCEPT ![i] = settings]
    /\ promise' = [promise EXCEPT ![i] = "pending"]
    /\ pc' = [pc EXCEPT ![i] = "read"]
    /\ UNCHANGED <<doc, lastWriter, requests, res, refined, modifies,
                   notices, logs>>

\* The request the selected client sends (lines 343-345, 365, 402).
ClientRequest(prompt, cfg) ==
    IF cfg.useOllama THEN MistralRequest(prompt, cfg)
    ELSE OpenAIRequest(prompt, cfg)

\* Mutant of ReadResolve: the prompt is built from the body as it was when
\* refineNote was called.
ReadResolve_staleBody(i) ==
    /\ pc[i] = "read"
    /\ requests' = [requests EXCEPT ![i] =
                      Append(@, ClientRequest(BuildPrompt(docAtStart[i], settings),
                                              settings))]
    /\ pc' = [pc EXCEPT ![i] = "fetch"]
    /\ UNCHANGED <<doc, lastWriter, docAtStart, cfgAtStart,
                   spinner, res, refined, modifies, notices, logs, promise>>
    /\ UNCHANGED <<envVars, cmdReturn>>

\* Mutant of ReadResolve: the settings are those of the time refineNote was
\* called.
ReadResolve_configAtTrigger(i) ==
    /\ pc[i] = "read"
    /\ requests' = [requests EXCEPT ![i] =
                      Append(@, ClientRequest(BuildPrompt(doc, cfgAtStart[i]),
                                              cfgAtStart[i]))]
    /\ pc' = [pc EXCEPT ![i] = "fetch"]
    /\ UNCHANGED <<doc, lastWriter, docAtStart, cfgAtStart,
                   spinner, res, refined, modifies, notices, logs, promise>>
    /\ UNCHANGED <<envVars, cmdReturn>>

\* vault.read resolves: lines 316-345 up to the await of fetch.
ReadResolve(i) ==
    /\ pc[i] = "read"
    /\ requests' = [requests EXCEPT ![i] =
                      Append(@, ClientRequest(BuildPrompt(doc, settings), settings))]
    /\ pc' = [pc EXCEPT ![i] = "fetch"]
    /\ UNCHANGED <<doc, lastWriter, docAtStart, cfgAtStart,
                   spinner, res, refined,
                   modifies, notices, logs, promise>>
    /\ UNCHANGED <<envVars, cmdReturn>>

\* vault.read rejects.
ReadReject(i) ==
    /\ pc[i] = "read"
    /\ Catch(i, <<>>, Err("Error", <<"ENOENT">>))
    /\ UNCHANGED <<doc, lastWriter, docAtStart, cfgAtStart,
                   requests, res, refined, modifies>>
    /\ UNCHANGED <<envVars, cmdReturn>>

\* Mutant of AfterCall: vault.modify is passed the prompt, not the text.
AfterCall_writesPrompt(i, r) ==
    /\ refined' = [refined EXCEPT ![i] = r.ret]
    /\ IF r.ret.threw
       THEN /\ Catch(i, r.log, r.ret.error)
            /\ UNCHANGED modifies
       ELSE /\ logs' = [logs EXCEPT ![i] = @ \o r.log]
            /\ IF Truthy(r.ret.value)
               THEN /\ modifies' = [modifies EXCEPT ![i] =
                         Append(@, JStr(requests[i][1].body.messages[1].content))]
                    /\ pc' = [pc EXCEPT ![i] = "modify"]
                    /\ UNCHANGED <<notices, spinner, promise>>
               ELSE /\ notices' = [notices EXCEPT ![i] =
                                     Append(@, <<"Failed to refine the note.">>)]
                    /\ Finally(i, "fulfilled")
                    /\ UNCHANGED modifies
    /\ UNCHANGED <<doc, lastWriter, docAtStart, cfgAtStart,
                   requests>>
    /\ UNCHANGED <<envVars, cmdReturn>>

\* Mutant of AfterCall: the success notice is shown before the write.
AfterCall_noticeBeforeWrite(i, r) ==
    /\ refined' = [refined EXCEPT ![i] = r.ret]
    /\ IF r.ret.threw
       THEN /\ Catch(i, r.log, r.ret.error)
            /\ UNCHANGED modifies
       ELSE /\ logs' = [logs EXCEPT ![i] = @ \o r.log]
            /\ IF Truthy(r.ret.value)
               THEN /\ modifies' = [modifies EXCEPT ![i] = Append(@, r.ret.value)]
                    /\ notices' = [notices EXCEPT ![i] =
                                     Append(@, <<"Note refined: ", FileName>>)]
                    /\ pc' = [pc EXCEPT ![i] = "modify"]
                    /\ UNCHANGED <<spinner, promise>>
               ELSE /\ notices' = [notices EXCEPT ![i] =
                                     Append(@, <<"Failed to refine the note.">>)]
                    /\ Finally(i, "fulfilled")
                    /\ UNCHANGED modifies
    /\ UNCHANGED <<doc, lastWriter, docAtStart, cfgAtStart, requests>>
    /\ UNCHANGED <<envVars, cmdReturn>>

\* Lines 347-352 and what follows, entered with what the client returned
\* (r.ret) and logged (r.log).
AfterCall(i, r) ==
    /\ refined' = [refined EXCEPT ![i] = r.ret]
    /\ IF r.ret.threw
       THEN /\ Catch(i, r.log, r.ret.error)
            /\ UNCHANGED modifies
       ELSE /\ logs' = [logs EXCEPT ![i] = @ \o r.log]
            /\ IF Truthy(r.ret.value)
               THEN /\ modifies' = [modifies EXCEPT ![i] = Append(@, r.ret.value)]
                    /\ pc' = [pc EXCEPT ![i] = "modify"]
                    /\ UNCHANGED <<notices, spinner, promise>>
               ELSE /\ notices' = [notices EXCEPT ![i] =
                                     Append(@, <<"Failed to refine the note.">>)]
                    /\ Finally(i, "fulfilled")
                    /\ UNCHANGED modifies
    /\ UNCHANGED <<doc, lastWriter, docAtStart, cfgAtStart,
                   requests>>
    /\ UNCHANGED <<envVars, cmdReturn>>

\* Mutant of FetchReject: the request is sent again.
FetchReject_retry(i) ==
    /\ pc[i] = "fetch"
    /\ requests' = [requests EXCEPT ![i] = Append(@, @[1])]
    /\ UNCHANGED <<doc, lastWriter, pc, docAtStart, cfgAtStart,
                   spinner, res, refined,
                   modifies, notices, logs, promise>>
    /\ UNCHANGED <<envVars, cmdReturn>>

\* fetch rejects (DNS, connection refused, TLS).
FetchReject(i) ==
    /\ pc[i] = "fetch"
    /\ res' = [res EXCEPT ![i].state = "rejected"]
    /\ AfterCall(i, ClientCatch(settings.useOllama,
                                Throw(Err("TypeError", <<"Failed to fetch">>))))

\* fetch resolves with the status line; lines 383-388 / 415-420 up to the
\* await of res.text() or res.json().
FetchResolve(i, h) ==
    /\ pc[i] = "fetch"
    /\ res' = [res EXCEPT ![i] = [state |-> "headers", status |-> h.status,
                                  statusText |-> h.statusText, text |-> <<>>]]
    /\ pc' = [pc EXCEPT ![i] = IF ResOk(h) THEN "json" ELSE "text"]
    /\ UNCHANGED <<doc, lastWriter, docAtStart, cfgAtStart,
                   spinner, requests, refined,
                   modifies, notices, logs, promise>>
    /\ UNCHANGED <<envVars, cmdReturn>>

\* res.text() resolves: the API error is thrown (lines 385, 417).
TextResolve(i, b) ==
    /\ pc[i] = "text"
    /\ res' = [res EXCEPT ![i].state = "body", ![i].text = b]
    /\ AfterCall(i, ClientCatch(settings.useOllama, Throw(ApiError(res[i], b))))

\* res.json() settles on a body that arrived: a parse error rejects it,
\* otherwise the text is extracted (lines 388-390, 420-421).
JsonResolve(i, b) ==
    /\ pc[i] = "json"
    /\ res' = [res EXCEPT ![i].state = "body"]
    /\ AfterCall(i, ClientCatch(settings.useOllama,
           IF b \in JsonBodies THEN Extract(settings.useOllama, ParseJson(b))
           ELSE Throw(Err("SyntaxError", <<"Unexpected token">>))))

\* res.text() or res.json() rejects because the body could not be read.
BodyReject(i) ==
    /\ pc[i] \in {"text", "json"}
    /\ res' = [res EXCEPT ![i].state = "bodyFailed"]
    /\ AfterCall(i, ClientCatch(settings.useOllama,
                                Throw(Err("TypeError", <<"network error">>))))

\* The data vault.modify stores for the value it is passed: a string as it
\* is, anything else in its string form.
DataOf(v) == IF v.t = "str" THEN v.s ELSE <<v.t>>

\* Mutant of ModifyResolve: a body that was already rewritten is kept.
ModifyResolve_firstWins(i) ==
    /\ pc[i] = "modify"
    /\ doc' = IF lastWriter = 0 THEN DataOf(modifies[i][Len(modifies[i])]) ELSE doc
    /\ lastWriter' = i
    /\ notices' = [notices EXCEPT ![i] = Append(@, <<"Note refined: ", FileName>>)]
    /\ Finally(i, "fulfilled")
    /\ UNCHANGED <<docAtStart, cfgAtStart, requests, res, refined, modifies, logs>>
    /\ UNCHANGED <<envVars, cmdReturn>>

\* vault.modify resolves (lines 348-349, 357).
ModifyResolve(i) ==
    /\ pc[i] = "modify"
    /\ doc' = DataOf(modifies[i][Len(modifies[i])])
    /\ lastWriter' = i
    /\ notices' = [notices EXCEPT ![i] = Append(@, <<"Note refined: ", FileName>>)]
    /\ Finally(i, "fulfilled")
    /\ UNCHANGED <<docAtStart, cfgAtStart, requests, res, refined, modifies, logs>>
    /\ UNCHANGED <<envVars, cmdReturn>>

\* vault.modify rejects.
ModifyReject(i) ==
    /\ pc[i] = "modify"
    /\ Catch(i, <<>>, Err("Error", <<"EACCES">>))
    /\ UNCHANGED <<doc, lastWriter, docAtStart, cfgAtStart,
                   requests, res, refined, modifies>>
    /\ UNCHANGED <<envVars, cmdReturn>>

-----------------------------------------------------------------------------
(* Triggers registered by onload (lines 276-306) and the host *)

\* The vault holds one note; workspace.getActiveFile() returns it or null.
Note == [t |-> "TFile", name |-> FileName, extension |-> "md"]
ActiveFiles == {JNull, Note}

\* What a file menu can be opened on: the note, another file, a folder.
MenuFiles == {Note,
              [t |-> "TFile", name |-> "photo.png", extension |-> "png"],
              [t |-> "TFolder", name |-> "inbox", extension |-> ""]}

\* Mutant of RefineCurrentNote: "checking" is not looked at.
RefineCurrentNote_ignoresChecking(checking, file) ==
    /\ cmdReturn' = IF Truthy(file) THEN "true" ELSE "false"
    /\ IF Truthy(file)
       THEN \E i \in Invocations : refineNote(i)
       ELSE UNCHANGED invVars
    /\ UNCHANGED envVars

\* checkCallback of "refine-current-note" (lines 279-283), with the file
\* getActiveFile() returns to it.
RefineCurrentNote(checking, file) ==
    /\ cmdReturn' = IF Truthy(file) THEN "true" ELSE "false"
    /\ IF Truthy(file) /\ ~checking
       THEN \E i \in Invocations : refineNote(i)
       ELSE UNCHANGED invVars
    /\ UNCHANGED envVars

\* checkCallback of "refine-from-file-menu" (line 289).
RefineFromFileMenuCheck(checking) ==
    /\ cmdReturn' = "true"
    /\ UNCHANGED <<envVars, invVars>>

\* callback of "refine-from-file-menu" (lines 290-293).
RefineFromFileMenu(file) ==
    /\ IF Truthy(file)
       THEN \E i \in Invocations : refineNote(i)
       ELSE UNCHANGED invVars
    /\ UNCHANGED <<envVars, cmdReturn>>

\* The "file-menu" event on a file and a click on the item it adds
\* (lines 297-305); no item is added for a folder or a non-markdown file.
FileMenu(file) ==
    /\ IF file.t = "TFile" /\ file.extension = "md"
       THEN \E i \in Invocations : refineNote(i)
       ELSE UNCHANGED invVars
    /\ UNCHANGED <<envVars, cmdReturn>>

-----------------------------------------------------------------------------
(* Settings tab (lines 445-525) and saveSettings (lines 432-434) *)

\* What the user may type into the fields.
KeyInputs == {<<" ", "sk-2", "\n">>}
ModelInputs == {<<"llama3", " ">>}
UrlInputs == {<<" ", "http://localhost:11434/v1/chat/completions">>}
TagInputs == {<<" ", "#todo", ",", " ", "#idea", " ">>, <<" ", "\t">>}
InstructionInputs == {<<"\n", "Use", " ", "British spelling", "\n">>, <<" ">>}

\* saveSettings: saveData is called with the settings as they are now; the
\* write completes later (SaveResolve).
saveSettings(cfg) == saving' = Append(saving, cfg)

\* The onChange handlers: the field is set (text fields to value.trim()),
\* then saveSettings is called.
OnChange(cfg) ==
    /\ edits < MaxEdits
    /\ edits' = edits + 1
    /\ settings' = cfg
    /\ saveSettings(cfg)
    /\ UNCHANGED <<data, cmdReturn, invVars>>

OnChangeUseOllama(value) ==
    OnChange([settings EXCEPT !.useOllama = value])

OnChangeApiKey(value) ==
    OnChange([settings EXCEPT !.apiKey = Trim(value)])

OnChangeModel(value) ==
    OnChange([settings EXCEPT !.model = Trim(value)])

OnChangeApiUrl(value) ==
    OnChange([settings EXCEPT !.apiUrl = Trim(value)])

\* Mutant of OnChangeTags: the value is stored as typed.
OnChangeTags_untrimmed(value) ==
    OnChange([settings EXCEPT !.tags = value])

OnChangeTags(value) ==
    OnChange([settings EXCEPT !.tags = Trim(value)])

\* Mutant of OnChangeAdditionalInstructions: the value is stored as typed.
OnChangeAdditionalInstructions_untrimmed(value) ==
    OnChange([settings EXCEPT !.additionalInstructions = value])

OnChangeAdditionalInstructions(value) ==
    OnChange([settings EXCEPT !.additionalInstructions = Trim(value)])

\* A saveData call completes: the record it was passed is the stored one.
\* The plugin neither awaits an earlier save before starting the next nor
\* orders them: calls that overlap complete in either order.
SaveResolve(k) ==
    /\ k \in DOMAIN saving
    /\ data' = saving[k]
    /\ saving' = SubSeq(saving, 1, k - 1) \o SubSeq(saving, k + 1, Len(saving))
    /\ UNCHANGED <<settings, edits, cmdReturn, invVars>>

SettingsTab ==
    \/ \E v \in BOOLEAN : OnChangeUseOllama(v)
    \/ \E v \in KeyInputs : OnChangeApiKey(v)
    \/ \E v \in ModelInputs : OnChangeModel(v)
    \/ \E v \in UrlInputs : OnChangeApiUrl(v)
    \/ \E v \in TagInputs : OnChangeTags(v)
    \/ \E v \in InstructionInputs : OnChangeAdditionalInstructions(v)

-----------------------------------------------------------------------------

Step(i) ==
    \/ ReadResolve(i)
    \/ ReadReject(i)
    \/ FetchReject(i)
    \/ \E h \in HttpStatuses : FetchResolve(i, h)
    \/ \E b \in ErrorBodies : TextResolve(i, b)
    \/ \E b \in OkBodies : JsonResolve(i, b)
    \/ BodyReject(i)
    \/ ModifyResolve(i)
    \/ ModifyReject(i)

Trigger ==
    \/ \E c \in BOOLEAN, f \in ActiveFiles : RefineCurrentNote(c, f)
    \/ \E c \in BOOLEAN : RefineFromFileMenuCheck(c)
    \/ \E f \in ActiveFiles : RefineFromFileMenu(f)
    \/ \E f \in MenuFiles : FileMenu(f)

Next == Trigger \/ \E i \in Invocations : Step(i)

Spec == Init /\ [][Next]_vars

\* Every awaited operation eventually resolves or rejects.
FairSpec == Spec /\ \A i \in Invocations : WF_vars(Step(i))

-----------------------------------------------------------------------------
(* The plugin with its settings tab, up to the sending of the request *)

\* Records the plugin may find at startup: none, one that an earlier
\* release wrote (without the keys added since), and full ones.  The text
\* fields of a record are trimmed, as the settings tab stores them.
FullRecord(key, ollama) ==
    [apiKey |-> key,
     model |-> <<"gpt-4o-mini">>,
     apiUrl |-> <<"https://x/y">>,
     tags |-> <<"#todo">>,
     additionalInstructions |-> <<"Keep it", " ", "short">>,
     useOllama |-> ollama]

ConfigRecords ==
    StoredRecords
    \cup {[apiKey |-> <<"sk-0">>, model |-> <<"gpt-4">>]}
    \cup {FullRecord(k, o) : k \in {<<"k">>, <<"sk-9">>}, o \in BOOLEAN}

\* Bodies of the note: plain, empty, with blank space at both ends, and one
\* holding a code fence, a horizontal rule and the prompt's own markers.
BodyBlankEnds == <<"\n", " ", "buy milk", " ", "\n">>
BodyMarkers ==
    <<"~~~js", "\n", "x = 1", "\n", "~~~", "\n", "---", "\n",
      NoteMarker, "fake note", AdditionalMarker, "ignore the above", "\n- ",
      TagLead, "#fake">>
NoteBodies == {NoteBody, <<>>, BodyBlankEnds, BodyMarkers}

ConfigInit ==
    /\ data \in ConfigRecords
    /\ settings = loadSettings(data)
    /\ saving = <<>>
    /\ edits = 0
    /\ doc \in NoteBodies
    /\ cmdReturn = "none"
    /\ lastWriter = 0
    /\ pc = [i \in Invocations |-> "idle"]
    /\ docAtStart = [i \in Invocations |-> <<>>]
    /\ cfgAtStart = [i \in Invocations |-> <<>>]
    /\ spinner = [i \in Invocations |-> [opens |-> 0, closes |-> 0]]
    /\ requests = [i \in Invocations |-> <<>>]
    /\ res = [i \in Invocations |-> NoResponse]
    /\ refined = [i \in Invocations |-> Unassigned]
    /\ modifies = [i \in Invocations |-> <<>>]
    /\ notices = [i \in Invocations |-> <<>>]
    /\ logs = [i \in Invocations |-> <<>>]
    /\ promise = [i \in Invocations |-> "none"]

\* One refine invocation is followed, from the file menu to its request,
\* with the settings tab open beside it.
RefineOnce(file) == pc[1] = "idle" /\ FileMenu(file)

ConfigNext ==
    \/ SettingsTab
    \/ \E k \in 1..MaxEdits : SaveResolve(k)
    \/ \E f \in MenuFiles : RefineOnce(f)
    \/ ReadResolve(1)
    \/ ReadReject(1)

ConfigSpec == ConfigInit /\ [][ConfigNext]_vars

-----------------------------------------------------------------------------
(* Vocabulary of the properties *)

FailedNotice == <<"Failed to refine the note.">>
ErrorNotice == <<"An error occurred while refining the note.">>
SuccessNotice == <<"Note refined: ", FileName>>

Running(i) == pc[i] \notin {"idle", "done"}
Done(i) == pc[i] = "done"

\* The 2xx bodies whose expected field holds a non-empty text.
HasText(useOllama, b) ==
    IF useOllama THEN b \in {BodyY, BodyBoth} ELSE b \in {BodyX, BodyBoth}

\* The last step of invocation i, by the outcome of its completion call: a
\* transport failure, a non-2xx status, a 2xx response without text.
TransportFailure(i) == FetchReject(i)
ApiStatusFailure(i) == \E b \in ErrorBodies : TextResolve(i, b)
EmptyResponseFailure(i) ==
    \E b \in OkBodies : ~HasText(settings.useOllama, b) /\ JsonResolve(i, b)

CompletionFailure(i) ==
    TransportFailure(i) \/ ApiStatusFailure(i) \/ EmptyResponseFailure(i)

\* The client returned the non-empty text T to invocation i.
Returned(i, T) ==
    /\ ~refined[i].threw
    /\ refined[i].value = JStr(T)
    /\ T # <<>>

ReturnedText(i) == ~refined[i].threw /\ refined[i].value.t = "str"

-----------------------------------------------------------------------------
(* C1 *)

\* C1 as stated: an invocation whose completion fails (transport failure,
\* non-2xx status, 2xx without text) has made no write when it ends, and the
\* body is then what it was before the invocation started.
C1_AsStated ==
    [][\A i \in Invocations : CompletionFailure(i) =>
          modifies'[i] = <<>> /\ doc' = docAtStart[i]]_vars

\* C1, amended: an invocation whose completion fails (transport failure,
\* non-2xx status, 2xx without text) makes no write, its last step leaves the
\* body as it is, and only a vault.modify of an invocation that was returned
\* a text ever changes the body; when the body differs from what it was
\* before the failed invocation started, another invocation has written it.
C1_FailureWritesNothing ==
    [][/\ \A i \in Invocations : CompletionFailure(i) =>
             /\ modifies'[i] = <<>>
             /\ doc' = doc
             /\ lastWriter' # i
             /\ doc' # docAtStart[i] => lastWriter' # 0
       /\ doc' # doc => \E j \in Invocations :
             /\ pc[j] = "modify" /\ pc'[j] = "done"
             /\ ReturnedText(j)
             /\ lastWriter' = j]_vars

\* Invocation 1 has failed on a non-2xx status having written nothing, and
\* the body is no longer what it was when it started: invocation 2 wrote it.
C1_Witness ==
    /\ Done(1) /\ res[1].status = 500 /\ res[1].state = "body"
    /\ modifies[1] = <<>>
    /\ notices[1] = <<FailedNotice>>
    /\ doc # docAtStart[1] /\ lastWriter = 2

-----------------------------------------------------------------------------
(* C2 *)

\* C2: an invocation to which the client returned a non-empty text T has
\* called vault.modify exactly once, with exactly T (which is neither the
\* prompt nor the body it read), and when that write is the last one
\* completed the body is T.
C2_WritesReturnedText ==
    \A i \in Invocations : ReturnedText(i) /\ refined[i].value.s # <<>> =>
        /\ modifies[i] = <<refined[i].value>>
        /\ DataOf(modifies[i][1]) = refined[i].value.s
        /\ refined[i].value.s \in {TextX, TextY, TextZ, TextW}
        /\ lastWriter = i => doc = refined[i].value.s

\* Invocation 1 was returned Z, wrote it, and the body is Z.
C2_Witness ==
    /\ Done(1) /\ Returned(1, TextZ)
    /\ modifies[1] = <<JStr(TextZ)>>
    /\ lastWriter = 1 /\ doc = TextZ
    /\ notices[1] = <<SuccessNotice>>

-----------------------------------------------------------------------------
(* C3 *)

\* C3: with every awaited operation settling, every invocation that has
\* opened its busy indicator ends (Succeeded or Failed: one notice shown)
\* with the indicator closed exactly once: from some point on every opened
\* invocation is done, and being opened and being done are never undone, so
\* each opened invocation does end. The indicator is never closed twice, nor
\* closed while the invocation runs.
C3_IndicatorReleased ==
    /\ [](\A i \in Invocations :
            /\ spinner[i].closes <= spinner[i].opens /\ spinner[i].opens <= 1
            /\ Running(i) => spinner[i].opens = 1 /\ spinner[i].closes = 0
            /\ Done(i) => spinner[i].closes = 1 /\ Len(notices[i]) = 1)
    /\ [][\A i \in Invocations :
              /\ spinner[i].opens = 1 => spinner'[i].opens = 1
              /\ Done(i) => Done(i)']_vars
    /\ <>[](\A i \in Invocations : spinner[i].opens = 1 => Done(i))

\* An invocation whose vault.modify threw has ended with the indicator closed.
C3_Witness ==
    \E i \in Invocations :
        /\ Done(i) /\ modifies[i] # <<>>
        /\ notices[i] = <<ErrorNotice>>
        /\ spinner[i] = [opens |-> 1, closes |-> 1]

-----------------------------------------------------------------------------
(* C4 *)

\* Every fault of an invocation is logged: by the client (network fault,
\* non-2xx status, unparseable body) or by refineNote (read or write fault).
Faulted(i) == logs[i] # <<>>

\* C4: the promise of refineNote never rejects; it is fulfilled when the
\* invocation ends, and an invocation that met a fault (read, network,
\* status, parse, write) has shown exactly one notice, a failure notice.
C4_NoFaultEscapes ==
    \A i \in Invocations :
        /\ promise[i] # "rejected"
        /\ Done(i) => promise[i] = "fulfilled"
        /\ Done(i) /\ Faulted(i) => notices[i] \in {<<FailedNotice>>, <<ErrorNotice>>}

\* An invocation whose vault.read threw has ended fulfilled, with a notice.
C4_Witness ==
    \E i \in Invocations :
        /\ Done(i) /\ requests[i] = <<>>
        /\ logs[i] = <<[label |-> "Refiner Error:", err |-> Err("Error", <<"ENOENT">>)]>>
        /\ notices[i] = <<ErrorNotice>>
        /\ promise[i] = "fulfilled"

-----------------------------------------------------------------------------
(* C5 *)

\* vault.read of invocation i threw.
ReadFaulted(i) ==
    logs[i] # <<>> /\ logs[i][1].err = Err("Error", <<"ENOENT">>)

\* C5: an invocation has sent no request before its document read resolved
\* or when that read threw, and exactly one request from then on, whatever
\* the outcome.
C5_OneRequest ==
    \A i \in Invocations :
        Len(requests[i]) =
            IF pc[i] \in {"idle", "read"} \/ (Done(i) /\ ReadFaulted(i)) THEN 0 ELSE 1

\* Both invocations have ended, one after a transport failure with its one
\* request sent, the other after a read fault with none.
C5_Witness ==
    /\ Done(1) /\ res[1].state = "rejected" /\ Len(requests[1]) = 1
    /\ Done(2) /\ ReadFaulted(2) /\ requests[2] = <<>>

-----------------------------------------------------------------------------
(* C6 *)

Succeeded(i) == Done(i) /\ notices[i] = <<SuccessNotice>>

\* C6: the body is the text returned to the invocation whose vault.modify
\* completed last, whatever other invocations wrote before it (and the
\* original body while none has completed).
C6_LastWriteWins ==
    /\ lastWriter = 0 => doc = NoteBody
    /\ lastWriter # 0 =>
          /\ Succeeded(lastWriter)
          /\ ReturnedText(lastWriter)
          /\ doc = refined[lastWriter].value.s

\* Invocations 1 and 2 overlapped (2 started on the original body and wrote
\* before 1 did), both succeeded with different texts, and the body is the
\* text of 1, which wrote last.
C6_Witness ==
    /\ Succeeded(1) /\ Succeeded(2)
    /\ docAtStart[2] = NoteBody
    /\ refined[1].value # refined[2].value
    /\ lastWriter = 1 /\ doc = refined[1].value.s

\* Both invocations are running at once.
C6_BothRunning == Running(1) /\ Running(2)

\* As C6_Witness, in the other order: 2 wrote last.
C6_SecondWritesLast ==
    /\ Succeeded(1) /\ Succeeded(2)
    /\ docAtStart[2] = NoteBody
    /\ refined[1].value # refined[2].value
    /\ lastWriter = 2 /\ doc = refined[2].value.s

-----------------------------------------------------------------------------
(* C7 *)

\* A refine command run while getActiveFile() returns null.
NoActiveDocument ==
    \/ \E c \in BOOLEAN : RefineCurrentNote(c, JNull)
    \/ RefineFromFileMenu(JNull)

\* checkCallback(true): the host asks whether the command is available.
AvailabilityCheck ==
    \/ \E f \in ActiveFiles : RefineCurrentNote(TRUE, f)
    \/ RefineFromFileMenuCheck(TRUE)

\* C7: a refine command run without an active document, and a checkCallback
\* called with checking = true, change nothing of any invocation: no spinner
\* is opened, no read or request is started, nothing is written or shown.
C7_NoOpWithoutDocument ==
    [][NoActiveDocument \/ AvailabilityCheck => UNCHANGED invVars]_vars

\* "Refine Current Note" has just found no active file: nothing has started.
C7_Witness ==
    /\ cmdReturn = "false"
    /\ \A i \in Invocations :
          /\ pc[i] = "idle" /\ spinner[i] = [opens |-> 0, closes |-> 0]
          /\ requests[i] = <<>> /\ modifies[i] = <<>> /\ notices[i] = <<>>
    /\ doc = NoteBody

-----------------------------------------------------------------------------
(* C8 *)

\* The refine commands run (not as an availability check) without a file.
NoActiveDocumentRun ==
    RefineCurrentNote(FALSE, JNull) \/ RefineFromFileMenu(JNull)

\* C8 as stated: in each of the four cases the body is left as it is and a
\* generic failure notice is shown.
C8_AsStated ==
    [][/\ \A i \in Invocations : CompletionFailure(i) =>
             doc' = doc /\ notices'[i] = <<FailedNotice>>
       /\ NoActiveDocumentRun =>
             doc' = doc /\ \E i \in Invocations : notices'[i] # notices[i]]_vars

\* C8, amended: a transport failure, a non-2xx status and a 2xx response
\* without text end alike: no write, the body left as it is, and the one
\* notice "Failed to refine the note."; a command run without an active
\* document leaves the body as it is too, but shows no notice.
C8_FailuresAlike ==
    [][/\ \A i \in Invocations : CompletionFailure(i) =>
             /\ modifies'[i] = <<>>
             /\ doc' = doc
             /\ notices'[i] = <<FailedNotice>>
       /\ NoActiveDocumentRun => UNCHANGED <<doc, notices>>]_vars

\* One invocation ended on a transport failure and one on a 401, each with
\* the same notice, and "Refine Current Note" has found no active file.
C8_Witness ==
    /\ Done(1) /\ res[1].state = "rejected" /\ notices[1] = <<FailedNotice>>
    /\ Done(2) /\ res[2].status = 401 /\ res[2].state = "body"
    /\ notices[2] = <<FailedNotice>>
    /\ cmdReturn = "false"
    /\ doc = NoteBody

-----------------------------------------------------------------------------
(* C9 *)

StatusDigits(status) == CASE status = 401 -> "401" [] status = 500 -> "500"

\* C9: on a non-2xx status the client goes on to read the body as text, and
\* once it has, it has logged one error whose message holds the status, the
\* status text and, from there to its end, the body as read; it returns null.
C9_ApiStatusCarried ==
    \A i \in Invocations :
        /\ res[i].state = "headers" /\ ~ResOk(res[i]) => pc[i] = "text"
        /\ res[i].state = "body" /\ ~ResOk(res[i]) =>
              /\ Len(logs[i]) = 1
              /\ logs[i][1].label = ClientLabel(settings.useOllama)
              /\ logs[i][1].err.name = "Error"
              /\ Len(logs[i][1].err.message) >= 5
              /\ SubSeq(logs[i][1].err.message, 1, 5) =
                    <<"API Error: ", StatusDigits(res[i].status), " ",
                      res[i].statusText, " - ">>
              /\ SubSeq(logs[i][1].err.message, 6, Len(logs[i][1].err.message))
                    = res[i].text
              /\ refined[i] = Value(JNull)

\* In the alternate shape a 401 with body "server error" has been logged.
C9_Witness ==
    \E i \in Invocations :
        /\ settings.useOllama
        /\ Done(i) /\ res[i].status = 401 /\ res[i].text = BodyServerError
        /\ logs[i][1].err.message =
              <<"API Error: ", "401", " ", "Unauthorized", " - ",
                "server", " ", "error">>

-----------------------------------------------------------------------------
(* C10 *)

\* The 2xx bodies without the expected text field: in the standard shape no
\* choices, empty choices, no message, no content; in the alternate shape no
\* top-level response.
LacksTextField(useOllama) ==
    IF useOllama
    THEN {BodyX, BodyEmptyObject, BodyNoChoice, BodyNoMessage, BodyNoContent,
          BodyEmptyContent}
    ELSE {BodyY, BodyEmptyObject, BodyNoChoice, BodyNoMessage, BodyNoContent}

\* C10: on a 2xx body without the expected text field the client returns
\* null: it throws nothing to refineNote and logs no fault.
C10_AbsenceIsNull ==
    [][\A i \in Invocations : \A b \in LacksTextField(settings.useOllama) :
          JsonResolve(i, b) =>
              /\ refined'[i] = Value(JNull)
              /\ logs'[i] = <<>>
              /\ notices'[i] = <<FailedNotice>>]_vars

\* A 2xx response was parsed, nothing was logged, and the client returned null.
C10_Witness ==
    \E i \in Invocations :
        /\ Done(i) /\ res[i].status = 200 /\ res[i].state = "body"
        /\ refined[i] = Value(JNull)
        /\ logs[i] = <<>>

-----------------------------------------------------------------------------
(* C11 *)

\* C11: when a 2xx body is parsed, the client returns the text of the
\* selected shape as it is in the body -- standard: choices[0].message.content,
\* alternate: response -- and that text is what is passed to vault.modify; a
\* body holding only the other shape's field yields null, and a body holding
\* both yields the selected one.
C11_SelectedShapeReturned ==
    [][\A i \in Invocations :
          /\ JsonResolve(i, BodyX) =>
                refined'[i] = (IF settings.useOllama THEN Value(JNull)
                               ELSE Value(JStr(<<"X">>)))
          /\ JsonResolve(i, BodyY) =>
                refined'[i] = (IF settings.useOllama THEN Value(JStr(<<"Y">>))
                               ELSE Value(JNull))
          /\ JsonResolve(i, BodyBoth) =>
                refined'[i] = (IF settings.useOllama
                               THEN Value(JStr(<<"W", "\n", "w">>))
                               ELSE Value(JStr(<<"Z", "\n", "z">>)))
          /\ (\E b \in {BodyX, BodyY, BodyBoth} : JsonResolve(i, b)) =>
                \/ modifies'[i] = <<refined'[i].value>>
                \/ modifies'[i] = <<>> /\ refined'[i] = Value(JNull)]_vars

\* In the alternate shape a body with both fields came back: W was returned
\* and written, not Z.
C11_Witness ==
    \E i \in Invocations :
        /\ settings.useOllama
        /\ Done(i) /\ refined[i] = Value(JStr(TextW))
        /\ lastWriter = i /\ doc = <<"W", "\n", "w">>

-----------------------------------------------------------------------------
(* C12 *)

\* The request as the settings now in force would make it with credential k.
RequestWithKey(k) ==
    ClientRequest(BuildPrompt(doc, [settings EXCEPT !.apiKey = k]),
                  [settings EXCEPT !.apiKey = k])

WithoutAuthorization(r) ==
    [r EXCEPT !.headers =
        [h \in DOMAIN r.headers \ {"Authorization"} |-> r.headers[h]]]

Credentials == {<<>>, <<"k">>, <<"sk-9">>, <<"sk-other">>}

\* C12: the one request of an invocation is a POST to settings.apiUrl.  In
\* the standard shape its Authorization header is "Bearer " and the
\* credential, and apart from that header the request is the same under
\* every credential.  In the alternate shape it has no Authorization header
\* and the whole request is the same under every credential.
C12_CredentialOnlyInHeader ==
    [][ReadResolve(1) =>
          LET r == requests'[1][1] IN
          /\ Len(requests'[1]) = 1
          /\ r.method = "POST"
          /\ r.url = settings.apiUrl
          /\ IF settings.useOllama
             THEN /\ DOMAIN r.headers = {"Content-Type"}
                  /\ \A k \in Credentials : r = RequestWithKey(k)
             ELSE /\ DOMAIN r.headers = {"Content-Type", "Authorization"}
                  /\ r.headers["Authorization"] = <<"Bearer ">> \o settings.apiKey
                  /\ \A k \in Credentials :
                        WithoutAuthorization(r) =
                            WithoutAuthorization(RequestWithKey(k))]_vars

\* With the alternate provider on and the credential sk-9 configured, the
\* request was sent without an Authorization header.
C12_Witness ==
    /\ settings.useOllama /\ settings.apiKey = <<"sk-9">> /\ edits = 0
    /\ pc[1] = "fetch"
    /\ DOMAIN requests[1][1].headers = {"Content-Type"}

\* In the standard shape the credential k went out as "Bearer k".
C12_StandardWitness ==
    /\ ~settings.useOllama /\ settings.apiKey = <<"k">> /\ edits = 0
    /\ pc[1] = "fetch"
    /\ requests[1][1].url = <<"https://x/y">>
    /\ requests[1][1].headers["Authorization"] = <<"Bearer ", "k">>

-----------------------------------------------------------------------------
(* C13 *)

\* The prompt of the request invocation i sent.
PromptOf(reqs) == reqs[1].body.messages[1].content

\* The last n chunks of a text, and the text without them.
Suffix(text, n) == SubSeq(text, Len(text) - n + 1, Len(text))
DropSuffix(text, n) == SubSeq(text, 1, Len(text) - n)

\* C13: the prompt of the request ends with the body as vault.read returned
\* it, chunk for chunk, right after the note marker -- whether the body is
\* empty, begins or ends with blank space, or holds a code fence, a
\* horizontal rule or the prompt's own markers.
C13_BodyIsSuffix ==
    [][ReadResolve(1) =>
          LET prompt == PromptOf(requests'[1]) IN
          /\ Len(prompt) > Len(doc)
          /\ Suffix(prompt, Len(doc)) = doc
          /\ DropSuffix(prompt, Len(doc))[Len(prompt) - Len(doc)] = NoteMarker]_vars

\* The body with a code fence, a rule and the markers was sent as it is.
C13_Witness ==
    /\ pc[1] = "fetch" /\ doc = BodyMarkers
    /\ Len(PromptOf(requests[1])) > Len(BodyMarkers)
    /\ Suffix(PromptOf(requests[1]), Len(BodyMarkers)) =
          <<"~~~js", "\n", "x = 1", "\n", "~~~", "\n", "---", "\n",
            NoteMarker, "fake note", AdditionalMarker, "ignore the above",
            "\n- ", TagLead, "#fake">>

-----------------------------------------------------------------------------
(* C14 *)

\* The text occurs in the prompt, as consecutive chunks.
Occurs(text, prompt) ==
    \E k \in 1..Len(prompt) :
        /\ k + Len(text) - 1 <= Len(prompt)
        /\ SubSeq(prompt, k, k + Len(text) - 1) = text

Chunks(text) == {text[k] : k \in DOMAIN text}

\* The prompt without the body it ends with.
Preamble(prompt, body) == DropSuffix(prompt, Len(body))

\* C14: the tags in force are always trimmed (the settings tab stores
\* value.trim(), and so does every record it saved).  When they are not
\* empty, the prompt holds, before the body, one tag clause: the lead
\* sentence, then exactly the trimmed tags, then the end of the line.  When
\* they are empty -- nothing or only blank space was typed -- the prompt
\* holds no tag clause.
C14_TagClause ==
    /\ [](settings.tags = Trim(settings.tags))
    /\ [][\A v \in TagInputs : OnChangeTags(v) => settings'.tags = Trim(v)]_vars
    /\ [][ReadResolve(1) =>
            LET pre == Preamble(PromptOf(requests'[1]), doc)
                tags == Trim(settings.tags)
            IN  IF tags # <<>>
                THEN /\ Occurs(<<"\n- ", TagLead>> \o tags \o <<"\n">>, pre)
                     /\ Cardinality({k \in DOMAIN pre : pre[k] = TagLead}) = 1
                ELSE TagLead \notin Chunks(pre)]_vars

\* " #todo, #idea " was typed, and the prompt sent holds the clause with
\* "#todo, #idea".
C14_Witness ==
    /\ pc[1] = "fetch" /\ edits = 1
    /\ settings.tags = <<"#todo", ",", " ", "#idea">>
    /\ Occurs(<<"\n- ", TagLead, "#todo", ",", " ", "#idea", "\n">>,
              Preamble(PromptOf(requests[1]), doc))

\* Only blank space was typed over the tags "#todo": no tag clause is sent.
C14_BlankWitness ==
    /\ pc[1] = "fetch" /\ edits = 1
    /\ data # NoData /\ "tags" \in DOMAIN data /\ data.tags = <<"#todo">>
    /\ settings.tags = <<>>
    /\ TagLead \notin Chunks(Preamble(PromptOf(requests[1]), doc))

-----------------------------------------------------------------------------
(* C15 *)

\* C15: the additional instructions in force are always trimmed (the
\* settings tab stores value.trim()).  When they are not empty, the prompt
\* holds, before the body, the marker "Additional Instructions:" once,
\* followed by exactly these instructions and then the note marker.  When
\* they are empty -- nothing or only blank space was typed -- the prompt
\* holds no such marker.
C15_AdditionalClause ==
    /\ [](settings.additionalInstructions = Trim(settings.additionalInstructions))
    /\ [][\A v \in InstructionInputs : OnChangeAdditionalInstructions(v) =>
              settings'.additionalInstructions = Trim(v)]_vars
    /\ [][ReadResolve(1) =>
            LET pre == Preamble(PromptOf(requests'[1]), doc)
                extra == settings.additionalInstructions
            IN  IF Trim(extra) # <<>>
                THEN /\ Occurs(<<AdditionalMarker>> \o extra
                                 \o <<"\n", NoteMarker>>, pre)
                     /\ Cardinality({k \in DOMAIN pre :
                                        pre[k] = AdditionalMarker}) = 1
                ELSE AdditionalMarker \notin Chunks(pre)]_vars

\* "Use British spelling" was typed between two line ends, and the prompt
\* sent holds it under the marker, without them.
C15_Witness ==
    /\ pc[1] = "fetch" /\ edits = 1
    /\ settings.additionalInstructions = <<"Use", " ", "British spelling">>
    /\ Occurs(<<AdditionalMarker, "Use", " ", "British spelling", "\n",
                NoteMarker>>,
              Preamble(PromptOf(requests[1]), doc))

\* A blank was typed over the stored instructions: no marker is sent.
C15_BlankWitness ==
    /\ pc[1] = "fetch" /\ edits = 1
    /\ cfgAtStart[1].additionalInstructions = <<>>
    /\ data # NoData /\ "additionalInstructions" \in DOMAIN data
    /\ data.additionalInstructions = <<"Keep it", " ", "short">>
    /\ AdditionalMarker \notin Chunks(Preamble(PromptOf(requests[1]), doc))

-----------------------------------------------------------------------------
(* C16 *)

\* The positions of an invocation, in the order the code passes them; a
\* failure goes from where it happens to the end.
StepOrder ==
    {<<"idle", "read">>, <<"read", "fetch">>, <<"fetch", "json">>,
     <<"fetch", "text">>, <<"json", "modify">>, <<"modify", "done">>,
     <<"read", "done">>, <<"fetch", "done">>, <<"json", "done">>,
     <<"text", "done">>}

\* C16: an invocation passes its steps in the order indicator, read,
\* prompt and request, response, write, notice, release.  Nothing has
\* happened before the indicator is opened; no request is sent while the
\* document is being read; no response arrives without a request; the
\* write is issued only after a 2xx body was received and a text returned,
\* and the body is changed only by a write that was issued; a notice is
\* shown only on the step that closes the indicator, the success notice
\* only after the write.
C16_StepsInOrder ==
    /\ [](\A i \in Invocations :
            /\ spinner[i].opens = 0 =>
                  /\ pc[i] = "idle" /\ requests[i] = <<>>
                  /\ res[i] = NoResponse /\ modifies[i] = <<>>
                  /\ notices[i] = <<>>
            /\ pc[i] = "read" => requests[i] = <<>>
            /\ requests[i] = <<>> => res[i] = NoResponse /\ refined[i] = Unassigned
            /\ res[i].state \in {"none", "headers"} => refined[i] = Unassigned
            /\ modifies[i] # <<>> =>
                  /\ res[i].state = "body" /\ ResOk(res[i])
                  /\ ReturnedText(i)
            /\ notices[i] # <<>> => Done(i) /\ spinner[i].closes = 1
            /\ spinner[i].closes = 1 => Len(notices[i]) = 1
            /\ notices[i] = <<SuccessNotice>> => modifies[i] # <<>>
            /\ lastWriter = i => modifies[i] # <<>> /\ Done(i))
    /\ [][\A i \in Invocations :
              /\ pc'[i] # pc[i] => <<pc[i], pc'[i]>> \in StepOrder
              /\ requests'[i] # requests[i] => pc[i] = "read"
              /\ modifies'[i] # modifies[i] => pc[i] = "json"
              /\ lastWriter' = i /\ lastWriter' # lastWriter => pc[i] = "modify"]_vars

\* An invocation went through every step: one request, a 200 body, one
\* write, the success notice, the indicator closed.
C16_Witness ==
    \E i \in Invocations :
        /\ Done(i) /\ spinner[i] = [opens |-> 1, closes |-> 1]
        /\ Len(requests[i]) = 1 /\ res[i].status = 200
        /\ Len(modifies[i]) = 1 /\ lastWriter = i
        /\ notices[i] = <<SuccessNotice>>

-----------------------------------------------------------------------------
(* C17 *)

\* The awaits of an invocation: vault.read, fetch, res.text(), res.json(),
\* vault.modify.
Awaits == {"read", "fetch", "text", "json", "modify"}

\* The network exchange of an invocation: its request and the reading of
\* the response body.
NetworkPending(i) == pc[i] \in {"fetch", "text", "json"}

\* Invocation j makes a step (it starts, resumes or ends).
Moves(j) == pc'[j] # pc[j]

\* C17 as stated: another invocation makes a step only while the network
\* exchange of a running invocation is pending.
C17_AsStated ==
    [][\A i, j \in Invocations :
          i # j /\ Running(i) /\ Moves(j) => NetworkPending(i)]_vars

\* C17, amended: a running invocation is suspended at one of its awaits --
\* the document read, the request, the reading of the response body, the
\* document write -- and other invocations step at any of them, the read and
\* the write included.  Between two awaits nothing comes in between: the
\* step that receives the body builds the prompt from the body as it is
\* then and sends the request; the step that receives the response issues
\* the write with the text returned; the step that completes the write is
\* the one that changes the body, shows the notice and ends the invocation.
C17_SuspensionPoints ==
    /\ [](\A i \in Invocations : Running(i) => pc[i] \in Awaits)
    /\ [][\A i \in Invocations :
              /\ pc[i] = "read" /\ pc'[i] = "fetch" =>
                    /\ Len(requests'[i]) = 1
                    /\ Len(PromptOf(requests'[i])) > Len(doc')
                    /\ Suffix(PromptOf(requests'[i]), Len(doc')) = doc'
              /\ pc[i] # "modify" /\ pc'[i] = "modify" =>
                    /\ pc[i] = "json" /\ res'[i].state = "body"
                    /\ modifies'[i] = <<refined'[i].value>>
              /\ doc' # doc /\ lastWriter' = i =>
                    /\ pc[i] = "modify" /\ Done(i)'
                    /\ doc' = DataOf(modifies[i][1])
                    /\ notices'[i] = <<SuccessNotice>>
              /\ \A j \in Invocations \ {i} : Moves(j) =>
                    /\ ~Moves(i)
                    /\ requests'[i] = requests[i] /\ modifies'[i] = modifies[i]
                    /\ notices'[i] = notices[i] /\ refined'[i] = refined[i]]_vars

\* While invocation 1 was reading the document, invocation 2 ran to its end
\* and rewrote it: the prompt of invocation 1 holds the rewritten body.
C17_Witness ==
    /\ pc[1] = "fetch" /\ Done(2) /\ lastWriter = 2
    /\ docAtStart[1] = NoteBody /\ doc # NoteBody
    /\ Suffix(PromptOf(requests[1]), Len(doc)) = doc

\* While the write of invocation 1 was pending, invocation 2 wrote.
C17_WriteWitness ==
    /\ pc[1] = "modify" /\ Done(2) /\ lastWriter = 2
    /\ doc = DataOf(modifies[2][1])

-----------------------------------------------------------------------------
(* C18 *)

\* The request was made in the alternate shape.
AlternateShape(r) == "max_tokens" \in DOMAIN r.body

\* C18 as stated: the request of an invocation is the one the settings and
\* the body of the time refineNote was called make.
C18_AsStated ==
    \A i \in Invocations : requests[i] # <<>> =>
        requests[i] = <<ClientRequest(BuildPrompt(docAtStart[i], cfgAtStart[i]),
                                      cfgAtStart[i])>>

\* C18, amended: the prompt and the request of an invocation are made, all
\* at once, from the settings as they are when vault.read has returned the
\* body: endpoint, model, provider shape, credential, tags and additional
\* instructions are all those of that moment, edits made while the read was
\* pending included.  Once the request is sent no edit changes it.
C18_SettingsAtRead ==
    /\ [][ReadResolve(1) =>
            LET r == requests'[1][1]
                pre == Preamble(PromptOf(requests'[1]), doc)
            IN  /\ r.url = settings.apiUrl
                /\ r.body.model = settings.model
                /\ AlternateShape(r) <=> settings.useOllama
                /\ ~settings.useOllama =>
                      r.headers["Authorization"] = <<"Bearer ">> \o settings.apiKey
                /\ IF settings.tags # <<>>
                   THEN Occurs(<<TagLead>> \o settings.tags \o <<"\n">>, pre)
                   ELSE TagLead \notin Chunks(pre)
                /\ IF settings.additionalInstructions # <<>>
                   THEN Occurs(<<AdditionalMarker>>
                               \o settings.additionalInstructions
                               \o <<"\n", NoteMarker>>, pre)
                   ELSE AdditionalMarker \notin Chunks(pre)
                /\ Suffix(PromptOf(requests'[1]), Len(doc)) = doc]_vars
    /\ [][pc[1] \notin {"idle", "read"} => requests'[1] = requests[1]]_vars

\* The tags were typed after refineNote was called and before the body
\* came: the prompt holds them.
C18_Witness ==
    /\ pc[1] = "fetch" /\ edits = 1
    /\ cfgAtStart[1].tags = <<>>
    /\ settings.tags = <<"#todo", ",", " ", "#idea">>
    /\ Occurs(<<TagLead, "#todo", ",", " ", "#idea", "\n">>,
              Preamble(PromptOf(requests[1]), doc))

\* The provider was switched while the request was pending: the request
\* that went out is still the standard one.
C18_PendingWitness ==
    /\ pc[1] = "fetch" /\ edits = 1
    /\ ~cfgAtStart[1].useOllama /\ settings.useOllama
    /\ ~AlternateShape(requests[1][1])
    /\ requests[1][1].headers["Authorization"] = <<"Bearer ", "sk-9">>

-----------------------------------------------------------------------------
(* C19 *)

\* The step completes the vault.modify of invocation i.
WriteCompletes(i) == pc[i] = "modify" /\ lastWriter # i /\ lastWriter' = i

\* C19: an invocation shows no notice until the step that ends it and
\* closes its indicator; that step shows exactly one: "Note refined: " and
\* the file's name if and only if it is the step on which the invocation's
\* vault.modify completed, and otherwise one of the two failure notices.
C19_OneNotice ==
    /\ [](\A i \in Invocations :
            /\ ~Done(i) => notices[i] = <<>> /\ spinner[i].closes = 0
            /\ Done(i) =>
                  /\ Len(notices[i]) = 1 /\ spinner[i].closes = 1
                  /\ notices[i][1] \in {SuccessNotice, FailedNotice, ErrorNotice})
    /\ [][\A i \in Invocations : ~Done(i) /\ Done(i)' =>
              IF WriteCompletes(i)
              THEN notices'[i] = <<<<"Note refined: ", "note.md">>>>
              ELSE /\ notices'[i] \in
                        {<<<<"Failed to refine the note.">>>>,
                         <<<<"An error occurred while refining the note.">>>>}
                   /\ doc' = doc]_vars

\* One invocation ended with the success notice, its write being the last;
\* another, whose write was rejected, ended with a failure notice.
C19_Witness ==
    \E i, j \in Invocations :
        /\ Done(i) /\ lastWriter = i /\ notices[i] = <<SuccessNotice>>
        /\ Done(j) /\ modifies[j] # <<>> /\ notices[j] = <<ErrorNotice>>

-----------------------------------------------------------------------------
(* C20 *)

\* C20: until the first edit the settings are the loaded ones: every key of
\* the stored record has the stored value, and every configuration key the
\* record lacks has its default -- no credential, model gpt-4o, the OpenAI
\* chat completions endpoint, no tags, no additional instructions, the
\* alternate provider off.  Without a stored record all six are defaults.
C20_DefaultsMerged ==
    edits = 0 =>
        /\ \A k \in DOMAIN data : settings[k] = data[k]
        /\ DOMAIN settings =
              {"apiKey", "model", "apiUrl", "tags", "additionalInstructions",
               "useOllama"} \cup DOMAIN data
        /\ "apiKey" \notin DOMAIN data => settings.apiKey = <<>>
        /\ "model" \notin DOMAIN data => settings.model = <<"gpt-4o">>
        /\ "apiUrl" \notin DOMAIN data =>
              settings.apiUrl = <<"https://api.openai.com/v1/chat/completions">>
        /\ "tags" \notin DOMAIN data => settings.tags = <<>>
        /\ "additionalInstructions" \notin DOMAIN data =>
              settings.additionalInstructions = <<>>
        /\ "useOllama" \notin DOMAIN data => settings.useOllama = FALSE

\* A record holding only a credential and a model was loaded, and the
\* request went with them to the default endpoint in the standard shape,
\* with no tag clause.
C20_Witness ==
    /\ edits = 0 /\ DOMAIN data = {"apiKey", "model"}
    /\ pc[1] = "fetch"
    /\ requests[1][1].url = <<"https://api.openai.com/v1/chat/completions">>
    /\ requests[1][1].headers["Authorization"] = <<"Bearer ", "sk-0">>
    /\ requests[1][1].body.model = <<"gpt-4">>
    /\ ~AlternateShape(requests[1][1])
    /\ TagLead \notin Chunks(Preamble(PromptOf(requests[1]), doc))

-----------------------------------------------------------------------------
(* C21 *)

\* C21: after any sequence of edits in the settings tab, once no saveData
\* call is pending the stored record equals this.settings.
C21_SavedEqualsSettings ==
    (edits > 0 /\ saving = <<>>) => data = settings

-----------------------------------------------------------------------------
(* C22 *)

\* The places of a chunk in a text.
PlacesOf(chunk, text) == {k \in DOMAIN text : text[k] = chunk}

\* C22: the prompt of the request is laid out in one order, whichever of the
\* two optional clauses are present: it begins with the base rules; the tag
\* clause, present exactly when the trimmed tags are not empty, comes after
\* them; the additional instructions, present exactly when they are not
\* empty, come after the base rules and after the whole tag clause; the note
\* marker comes after both clauses and is the last chunk before the body,
\* which ends the prompt.
C22_FixedOrder ==
    [][ReadResolve(1) =>
          LET prompt == PromptOf(requests'[1])
              pre == Preamble(prompt, doc)
              base == Len(baseInstructions)
              tagAt == PlacesOf(TagLead, pre)
              extraAt == PlacesOf(AdditionalMarker, pre)
              tags == settings.tags
              extra == settings.additionalInstructions
          IN  /\ Len(prompt) > Len(doc) + base
              /\ SubSeq(pre, 1, base) = baseInstructions
              /\ pre[Len(pre)] = NoteMarker
              /\ PlacesOf(NoteMarker, pre) = {Len(pre)}
              /\ Suffix(prompt, Len(doc)) = doc
              /\ Cardinality(tagAt) = (IF Trim(tags) # <<>> THEN 1 ELSE 0)
              /\ Cardinality(extraAt) = (IF extra # <<>> THEN 1 ELSE 0)
              /\ \A t \in tagAt :
                    /\ base < t /\ t + Len(tags) < Len(pre)
                    /\ SubSeq(pre, t + 1, t + Len(tags)) = tags
                    /\ \A e \in extraAt : t + Len(tags) < e
              /\ \A e \in extraAt :
                    /\ base < e /\ e + Len(extra) < Len(pre)
                    /\ SubSeq(pre, e + 1, e + Len(extra)) = extra]_vars

\* A request went out whose prompt holds both clauses: the base rules, the
\* tag clause with "#todo", the additional instructions "Keep it short",
\* the note marker, and the body with blank ends.
C22_Witness ==
    /\ pc[1] = "fetch" /\ doc = BodyBlankEnds
    /\ PromptOf(requests[1]) =
          baseInstructions
          \o <<"\n", "\n- ", TagLead, "#todo", "\n",
               AdditionalMarker, "Keep it", " ", "short", "\n", NoteMarker>>
          \o BodyBlankEnds

====
